---- MODULE Spec2Model ----
(***************************************************************************)
(* datapane/view/xml_visitor.py: XMLBuilder, the visitor that turns a View *)
(* (a tree of blocks) into an XML node tree while it writes the payloads   *)
(* of the Asset blocks to a file store, and get_writer, the lazily filled  *)
(* registry of asset writers.                                              *)
(*                                                                         *)
(* The recursion of visit is modelled with an explicit call stack: one     *)
(* frame per active visit of a ContainerBlock or View, holding the block,  *)
(* the local cur_elemnts and the position of b.traverse in the children.   *)
(* The visits of the other blocks are one step each.  An exception unwinds *)
(* the whole stack: no handler of the file catches anything but the        *)
(* DispatchError inside _add_asset_to_store.                               *)
(***************************************************************************)
EXTENDS Integers, Sequences, FiniteSets, TLC

VARIABLES
    asset_mapping,  \* module global: block class -> writer class
    assets,         \* the AssetBlock objects: klass, data, file, caption, _prev_entry
    store,          \* self.store: fw_klass and files (entries given to add_file)
    elements,       \* self.elements
    stack,          \* active visit calls, outermost first
    pc,             \* "idle", "visiting", "done", "raised"
    err,            \* the exception that ended the traversal
    names,          \* how many names gen_name has handed out
    uid,            \* how many entries the stores have allocated
    root,           \* the View given to the running (or last) traversal
    writes,         \* per Asset block: completed write_file calls
    returned,       \* per Asset block: entries _add_asset_to_store returned
    klasses,        \* per Asset block: fw_klass of the stores it was visited with
    view_docs,      \* the nodes built by completed View visits of this traversal
    visits,         \* traversals started
    call,           \* the last _add_asset_to_store call of this traversal: before and outcome
    gw_called       \* get_writer has been called

vars == <<asset_mapping, assets, store, elements, stack, pc, err, names, uid,
          root, writes, returned, klasses, view_docs, visits, call, gw_called>>

----------------------------------------------------------------------------
(* Bounds *)

MaxNodes == 3      \* blocks below the root View, in the structural runs
MaxAssetNodes == 2 \* blocks below the root View, in the asset runs
MaxVisits == 2     \* traversals in the asset runs

\* the AssetBlock objects of the runs
AssetIds == {1, 2}

----------------------------------------------------------------------------
(* Values *)

NoAttrs == [k \in {} |-> ""]

\* {**a, **b}: the keys of b win
Merge(a, b) == [k \in (DOMAIN a) \cup (DOMAIN b) |-> IF k \in DOMAIN b THEN b[k] ELSE a[k]]

Node(tag, attrs, kids, text) == [tag |-> tag, attrs |-> attrs, kids |-> kids, text |-> text]

Blk(kind, tag, attrs, kids, content, target, aid, fragment) ==
    [kind |-> kind, tag |-> tag, attrs |-> attrs, kids |-> kids, content |-> content,
     target |-> target, aid |-> aid, fragment |-> fragment]

None == "None"
NoEntry == [klass |-> None, uid |-> 0, hash |-> "", mime |-> ""]
NoErr == [exc |-> "", msg |-> <<>>]

TargetModes == {"SELF", "BELOW", "SIDE", "DEFAULT"}
EntryKlasses == {"B64FileEntry", "GzipTmpFileEntry"}
DefaultKinds == {"Plot", "Table", "DataTable", "Attachment"}
PayloadTypes == {"Figure", "DataFrame"}

EmptyB == Blk("Base", "Empty", [name |-> "e1"], <<>>, "", "", 0, FALSE)
TextB == Blk("Text", "Text", NoAttrs, <<>>, "a<b&c", "", 0, FALSE)
InteractiveB(mode) ==
    Blk("Interactive", "Interactive", [label |-> "go", target |-> "t0"], <<>>, "", mode, 0, FALSE)
AssetB(a) == Blk("Asset", "Asset", [name |-> "p"], <<>>, "", "", a, FALSE)
GroupB(kids) == Blk("Container", "Group", [columns |-> "2"], kids, "", "", 0, FALSE)
ViewB(kids, fragment) == Blk("View", "View", NoAttrs, kids, "", "", 0, fragment)
\* the caller of visit(view): a pseudo frame whose only child is the root
CallB(view) == Blk("Call", "", NoAttrs, <<view>>, "", "", 0, FALSE)

----------------------------------------------------------------------------
(* Collaborators outside the file: blocks, file store, writers, gen_name *)

\* b._tag of an Asset block is the tag of its class
AssetTag(a) == a.klass

\* b.get_file_attribs(): attributes the block derives from its file
get_file_attribs(a) == IF a.klass = "Attachment" THEN [filename |-> "f.bin", name |-> "file"] ELSE NoAttrs

\* gen_name(): the i-th name handed out
gen_name(i) == "gen_" \o ToString(i)

\* b.controls._to_xml()
ControlsNode == Node("Controls", NoAttrs, <<>>, "")

\* the payload types the multimethods of a writer class have a rule for
WriterRules(w) ==
    CASE w = "PlotWriter" -> {"Figure"}
      [] w = "HTMLTableWriter" -> {"DataFrame"}
      [] w = "DataTableWriter" -> {"DataFrame"}
      [] OTHER -> PayloadTypes

\* writer.get_meta(data)
get_meta(w, data) ==
    CASE w = "PlotWriter" -> [ext |-> ".json", mime |-> "application/vnd.plot+json"]
      [] w = "HTMLTableWriter" -> [ext |-> ".html", mime |-> "application/vnd.table+html"]
      [] w = "DataTableWriter" -> [ext |-> ".arrow", mime |-> "application/vnd.arrow"]
      [] OTHER -> [ext |-> ".bin", mime |-> "application/octet-stream"]

\* store.get_file(ext, mime): a fresh entry of the store's class; its hash is
\* the hash of the bytes written to it
get_file(st, n, mime, content) == [klass |-> st.fw_klass, uid |-> n, hash |-> "h_" \o content, mime |-> mime]

\* store.load_file(path): the file imported as an entry of the store's class
load_file(st, n, path) == [klass |-> st.fw_klass, uid |-> n, hash |-> "h_" \o path, mime |-> "application/octet-stream"]

\* store.add_file(entry)
add_file(st, fe) == [st EXCEPT !.files = Append(@, fe)]

----------------------------------------------------------------------------
(* get_writer and the registry *)

DefaultMapping ==
    [k \in DefaultKinds |->
        CASE k = "Plot" -> "PlotWriter"
          [] k = "Table" -> "HTMLTableWriter"
          [] k = "DataTable" -> "DataTableWriter"
          [] OTHER -> "AttachmentWriter"]

\* lines 188-196: the defaults are put in when the mapping is empty
Populate(m) == IF DOMAIN m = {} THEN Merge(m, DefaultMapping) ELSE m

\* get_writer(b): the mapping afterwards, and the writer or the KeyError of
\* asset_mapping[type(b)]
get_writer(m, klass) ==
    LET m2 == Populate(m) IN
    IF klass \in DOMAIN m2
    THEN [mapping |-> m2, exc |-> "", writer |-> m2[klass]]
    ELSE [mapping |-> m2, exc |-> "KeyError", writer |-> ""]

----------------------------------------------------------------------------
(* XMLBuilder._add_asset_to_store *)

\* variants of line 143: the memo never used; the memo used whatever its class
NeverReusable(a, st) == FALSE
ReusableAnyType(a, st) == a.prev # NoEntry

\* line 143: a memoized entry of the class the store makes
Reusable(a, st) == a.prev # NoEntry /\ a.prev.klass = st.fw_klass

Outcome(exc, msg, fe, a, st, m, n, wrote, looked) ==
    [exc |-> exc, msg |-> msg, fe |-> fe, asset |-> a, store |-> st, mapping |-> m,
     uid |-> n, wrote |-> wrote, looked |-> looked]

\* variant of lines 150-154: the entry allocated, registered and memoized
\* before the writer is asked for the metadata
AddDataMemoFirst(a, st, m, n) ==
    LET gw == get_writer(m, a.klass)
        fe == get_file(st, n + 1, "", a.data)
    IN IF gw.exc = "" /\ a.data \in WriterRules(gw.writer)
       THEN LET fw == get_file(st, n + 1, get_meta(gw.writer, a.data).mime, a.data) IN
            Outcome("", <<>>, fw, [a EXCEPT !.prev = fw], add_file(st, fw), gw.mapping,
                    n + 1, TRUE, TRUE)
       ELSE Outcome("DPClientError", <<a.data, "not supported for", "XMLBuilder">>, NoEntry,
                    [a EXCEPT !.prev = fe], add_file(st, fe), gw.mapping, n + 1, FALSE, TRUE)

\* lines 147-156: the block has inline data
AddData(a, st, m, n) ==
    LET gw == get_writer(m, a.klass) IN
    IF gw.exc # ""
    THEN \* KeyError is no DispatchError: it passes the except clause
         Outcome(gw.exc, <<a.klass>>, NoEntry, a, st, gw.mapping, n, FALSE, TRUE)
    ELSE IF a.data \notin WriterRules(gw.writer)
    THEN \* get_meta raises DispatchError, translated at line 156
         Outcome("DPClientError", <<a.data, "not supported for", "XMLBuilder">>,
                 NoEntry, a, st, gw.mapping, n, FALSE, TRUE)
    ELSE LET fe == get_file(st, n + 1, get_meta(gw.writer, a.data).mime, a.data) IN
         Outcome("", <<>>, fe, [a EXCEPT !.prev = fe], add_file(st, fe), gw.mapping, n + 1, TRUE, TRUE)

\* lines 136-163
add_asset_to_store(a, st, m, n) ==
    IF Reusable(a, st)
    THEN Outcome("", <<>>, a.prev, a, add_file(st, a.prev), m, n, FALSE, FALSE)
    ELSE IF a.data # None
    THEN AddData(a, st, m, n)
    ELSE IF a.file # None
    THEN LET fe == load_file(st, n + 1, a.file) IN
         Outcome("", <<>>, fe, [a EXCEPT !.prev = fe], st, m, n + 1, FALSE, FALSE)
    ELSE Outcome("DPClientError", <<"No asset to add">>, NoEntry, a, st, m, n, FALSE, FALSE)

----------------------------------------------------------------------------
(* The nodes the visit methods build *)

\* variant of line 48: the node put in front
add_element_front(els, e) == <<e>> \o els

\* lines 46-49
add_element(els, e) == Append(els, e)

\* lines 55-56
BaseNode(b) == Node(b.tag, b.attrs, <<>>, "")

\* lines 65-66
ContainerNode(b, kids) == Node(b.tag, b.attrs, kids, "")

\* lines 78-82
ViewDoc(b, kids) ==
    Node("View", [version |-> "1", fragment |-> IF b.fragment THEN "true" ELSE "false"], kids, "")

\* lines 89-90: the content as CDATA
TextNode(b) == Node(b.tag, b.attrs, <<>>, b.content)

\* variant of line 103: the columns of BELOW and SIDE exchanged
InteractiveNodeSwapped(b, name) ==
    IF b.target = "SELF"
    THEN Node("Interactive", Merge(b.attrs, [target |-> name, name |-> name]), <<ControlsNode>>, "")
    ELSE IF b.target \in {"BELOW", "SIDE"}
    THEN Node("Group", [columns |-> IF b.target = "BELOW" THEN "2" ELSE "1"],
              << Node("Interactive", Merge(b.attrs, [target |-> name]), <<ControlsNode>>, ""),
                 Node("Group", [columns |-> "1"],
                      << Node("Empty", [name |-> name], <<>>, "") >>, "") >>, "")
    ELSE Node("Interactive", b.attrs, <<ControlsNode>>, "")

\* lines 94-112
InteractiveNode(b, name) ==
    IF b.target = "SELF"
    THEN Node("Interactive", Merge(b.attrs, [target |-> name, name |-> name]), <<ControlsNode>>, "")
    ELSE IF b.target \in {"BELOW", "SIDE"}
    THEN Node("Group", [columns |-> IF b.target = "BELOW" THEN "1" ELSE "2"],
              << Node("Interactive", Merge(b.attrs, [target |-> name]), <<ControlsNode>>, ""),
                 Node("Group", [columns |-> "1"],
                      << Node("Empty", [name |-> name], <<>>, "") >>, "") >>, "")
    ELSE Node("Interactive", b.attrs, <<ControlsNode>>, "")

\* lines 98-104: gen_name is called in the SELF, BELOW and SIDE branches only
NamesUsed(b) == IF b.target \in {"SELF", "BELOW", "SIDE"} THEN 1 ELSE 0

\* lines 121-133; the blocks of the runs have no attribute named type or src
AssetNode(b, a, fe) ==
    LET attrs == Merge([type |-> fe.mime],
                       Merge(Merge(b.attrs, get_file_attribs(a)), [src |-> "ref://" \o fe.hash]))
    IN Node(AssetTag(a),
            IF a.caption # "" THEN Merge(attrs, [caption |-> a.caption]) ELSE attrs,
            <<>>, "")

----------------------------------------------------------------------------
(* The trees given to visit *)

\* a block of kind c holding the children f; a nested View is a fragment
Holder(c, f) == IF c = "View" THEN ViewB(f, TRUE) ELSE GroupB(f)

RECURSIVE TreesN(_, _, _), ForestsN(_, _, _)
\* the trees of exactly n blocks: leaves drawn from L, inner blocks of the kinds C
TreesN(L, C, n) ==
    IF n = 1
    THEN L \cup {Holder(c, <<>>) : c \in C}
    ELSE {Holder(c, f) : c \in C, f \in ForestsN(L, C, n - 1)}
\* the sequences of trees of n blocks in all
ForestsN(L, C, n) ==
    IF n = 0
    THEN {<<>>}
    ELSE UNION { { <<t>> \o f : t \in TreesN(L, C, k), f \in ForestsN(L, C, n - k) } : k \in 1..n }

\* the Views over the child sequences of at most n blocks
ViewsUpTo(L, C, n) == UNION { { ViewB(f, FALSE) : f \in ForestsN(L, C, k) } : k \in 0..n }

TreeLeaves ==
    {EmptyB, TextB} \cup {InteractiveB(m) : m \in TargetModes} \cup {AssetB(a) : a \in AssetIds}
TreeViews == ViewsUpTo(TreeLeaves, {"Container", "View"}, MaxNodes)

AssetLeaves == {AssetB(a) : a \in AssetIds}
\* Views whose children are Asset blocks, the same block any number of times
AssetViews == ViewsUpTo(AssetLeaves, {}, MaxAssetNodes)

\* a node left in the accumulator of a visitor that is used again
StaleNode == Node("Stale", NoAttrs, <<>>, "")

----------------------------------------------------------------------------
(* The traversal *)

Top == stack[Len(stack)]
HasNext == Top.i <= Len(Top.b.kids)
Cur == Top.b.kids[Top.i]
\* the caller's position moves past the child being visited
Advance == [stack EXCEPT ![Len(stack)].i = @ + 1]
Pop == SubSeq(stack, 1, Len(stack) - 1)
\* entry: the accumulator when the visit was entered
Frame(b, els) == [b |-> b, cur_elemnts |-> els, i |-> 1, entry |-> elements]

Visiting(kind) == pc = "visiting" /\ HasNext /\ Cur.kind = kind
Returning(kind) == pc = "visiting" /\ ~HasNext /\ Top.b.kind = kind

\* variant: the View's document built on the way out of a failed traversal
UnwoundWithDoc(els, view) == <<ViewDoc(view, els)>>

\* lines 60-68 and 73-84 hold no try: the exception leaves the accumulator as
\* the innermost active visit had it
Unwound(els, view) == els

Raise(exc, msg) ==
    /\ pc' = "raised"
    /\ err' = [exc |-> exc, msg |-> msg]
    /\ stack' = <<>>
    /\ elements' = Unwound(elements, root)

NoCall == [id |-> 0]

\* XMLBuilder(store=FileStore(klass), elements=els).visit(view)
Begin(view, klass, els) ==
    /\ pc # "visiting"
    /\ pc' = "visiting"
    /\ stack' = <<Frame(CallB(view), <<>>)>>
    /\ elements' = els
    /\ store' = [fw_klass |-> klass, files |-> <<>>]
    /\ err' = NoErr
    /\ root' = view
    /\ view_docs' = {}
    /\ visits' = visits + 1
    /\ call' = NoCall
    /\ UNCHANGED <<asset_mapping, assets, names, uid, writes, returned, klasses, gw_called>>

\* a traversal of a tree of any blocks
StartTree ==
    /\ visits = 0
    /\ \E view \in TreeViews, els \in {<<>>, <<StaleNode>>} : Begin(view, "B64FileEntry", els)

\* lines 52-56
VisitBase ==
    /\ Visiting("Base")
    /\ elements' = add_element(elements, BaseNode(Cur))
    /\ stack' = Advance
    /\ UNCHANGED <<asset_mapping, assets, store, pc, err, names, uid, root, writes,
                   returned, klasses, view_docs, visits, call, gw_called>>

\* lines 86-90
VisitText ==
    /\ Visiting("Text")
    /\ elements' = add_element(elements, TextNode(Cur))
    /\ stack' = Advance
    /\ UNCHANGED <<asset_mapping, assets, store, pc, err, names, uid, root, writes,
                   returned, klasses, view_docs, visits, call, gw_called>>

\* lines 92-114
VisitInteractive ==
    /\ Visiting("Interactive")
    /\ names' = names + NamesUsed(Cur)
    /\ elements' = add_element(elements, InteractiveNode(Cur, gen_name(names + 1)))
    /\ stack' = Advance
    /\ UNCHANGED <<asset_mapping, assets, store, pc, err, uid, root, writes,
                   returned, klasses, view_docs, visits, call, gw_called>>

\* lines 116-134, with _add_asset_to_store and get_writer
VisitAsset ==
    /\ Visiting("Asset")
    /\ LET id == Cur.aid
           o == add_asset_to_store(assets[id], store, asset_mapping, uid)
       IN /\ assets' = [assets EXCEPT ![id] = o.asset]
          /\ store' = o.store
          /\ asset_mapping' = o.mapping
          /\ uid' = o.uid
          /\ writes' = [writes EXCEPT ![id] = @ + (IF o.wrote THEN 1 ELSE 0)]
          /\ klasses' = [klasses EXCEPT ![id] = @ \cup {store.fw_klass}]
          /\ call' = [id |-> id, asset |-> assets[id], store |-> store, els |-> elements, out |-> o]
          /\ gw_called' = (gw_called \/ o.looked)
          /\ IF o.exc # ""
             THEN /\ Raise(o.exc, o.msg)
                  /\ UNCHANGED returned
             ELSE /\ elements' = add_element(elements, AssetNode(Cur, o.asset, o.fe))
                  /\ stack' = Advance
                  /\ returned' = [returned EXCEPT ![id] = @ \cup {o.fe}]
                  /\ UNCHANGED <<pc, err>>
    /\ UNCHANGED <<names, root, view_docs, visits>>

\* lines 58-62: cur_elemnts = self.elements; self.elements = []; b.traverse(self)
ContainerCall ==
    /\ Visiting("Container")
    /\ stack' = Append(Advance, Frame(Cur, elements))
    /\ elements' = <<>>
    /\ UNCHANGED <<asset_mapping, assets, store, pc, err, names, uid, root, writes,
                   returned, klasses, view_docs, visits, call, gw_called>>

\* variant of line 67: the caller's accumulator not put back
NotRestored(cur_elemnts, node) == add_element(node.kids, node)

\* lines 65-68: the accumulator after the container's node is built
Restored(cur_elemnts, node) == add_element(cur_elemnts, node)

ContainerReturn ==
    /\ Returning("Container")
    /\ elements' = Restored(Top.cur_elemnts, ContainerNode(Top.b, elements))
    /\ stack' = Pop
    /\ UNCHANGED <<asset_mapping, assets, store, pc, err, names, uid, root, writes,
                   returned, klasses, view_docs, visits, call, gw_called>>

\* line 73: assert len(self.elements) == 0
AssertEmpty(els) == Len(els) = 0

\* lines 70-75
ViewCall ==
    /\ Visiting("View")
    /\ IF AssertEmpty(elements)
       THEN /\ stack' = Append(Advance, Frame(Cur, elements))
            /\ UNCHANGED <<elements, pc, err>>
       ELSE Raise("AssertionError", <<>>)
    /\ UNCHANGED <<asset_mapping, assets, store, names, uid, root, writes,
                   returned, klasses, view_docs, visits, call, gw_called>>

\* lines 77-84; the return of the root's visit ends the traversal
ViewReturn ==
    /\ Returning("View")
    /\ LET view_doc == ViewDoc(Top.b, elements)
       IN /\ elements' = <<view_doc>>
          /\ view_docs' = view_docs \cup {view_doc}
    /\ IF Len(stack) = 2
       THEN pc' = "done" /\ stack' = <<>>
       ELSE pc' = pc /\ stack' = Pop
    /\ UNCHANGED <<asset_mapping, assets, store, err, names, uid, root, writes,
                   returned, klasses, visits, call, gw_called>>

----------------------------------------------------------------------------
(* After construction: no traversal yet, the registry empty, no block       *)
(* memoizes an entry                                                        *)

Asset(klass, data, file, caption) ==
    [klass |-> klass, data |-> data, file |-> file, caption |-> caption, prev |-> NoEntry]

InitCommon ==
    /\ asset_mapping = NoAttrs
    /\ store = [fw_klass |-> "B64FileEntry", files |-> <<>>]
    /\ elements = <<>>
    /\ stack = <<>>
    /\ pc = "idle"
    /\ err = NoErr
    /\ names = 0
    /\ uid = 0
    /\ root = ViewB(<<>>, FALSE)
    /\ writes = [a \in AssetIds |-> 0]
    /\ returned = [a \in AssetIds |-> {}]
    /\ klasses = [a \in AssetIds |-> {}]
    /\ view_docs = {}
    /\ visits = 0
    /\ call = NoCall
    /\ gw_called = FALSE

\* the structural runs: one Plot with a figure, the other blocks without asset
TreeAssets == [a \in AssetIds |-> IF a = 1 THEN Asset("Plot", "Figure", None, "cap")
                                           ELSE Asset("Plot", None, None, "")]

InitTree == InitCommon /\ assets = TreeAssets

NextTree ==
    \/ StartTree
    \/ VisitBase
    \/ VisitText
    \/ VisitInteractive
    \/ VisitAsset
    \/ ContainerCall
    \/ ContainerReturn
    \/ ViewCall
    \/ ViewReturn

SpecTree == InitTree /\ [][NextTree]_vars

----------------------------------------------------------------------------
(* The asset runs: repeated traversals over trees of Asset blocks, with the *)
(* changes the caller can make between two traversals                       *)

\* repeated traversals, each with a visitor and a store of its own
StartAsset ==
    /\ visits < MaxVisits
    /\ \E view \in AssetViews, klass \in EntryKlasses : Begin(view, klass, <<>>)

\* asset_mapping[Custom] = CustomWriter, the extension of the registry
RegisterWriter ==
    /\ pc # "visiting"
    /\ "Custom" \notin DOMAIN asset_mapping
    /\ asset_mapping' = Merge(asset_mapping, [Custom |-> "CustomWriter"])
    /\ UNCHANGED <<assets, store, elements, stack, pc, err, names, uid, root, writes,
                   returned, klasses, view_docs, visits, call, gw_called>>

\* block.data = None: the caller drops the payload of the first block
ReleaseData ==
    /\ pc # "visiting"
    /\ assets[1].data # None
    /\ assets' = [assets EXCEPT ![1].data = None]
    /\ UNCHANGED <<asset_mapping, store, elements, stack, pc, err, names, uid, root, writes,
                   returned, klasses, view_docs, visits, call, gw_called>>

\* the first block is of any class, with or without data and file; the second
\* is an Attachment with a table and a caption
InitAsset ==
    /\ InitCommon
    /\ \E k \in {"Plot", "Custom"}, d \in PayloadTypes \cup {None}, f \in {None, "a.png"} :
          assets = [a \in AssetIds |-> IF a = 1 THEN Asset(k, d, f, "")
                                       ELSE Asset("Attachment", "DataFrame", None, "cap")]

NextAsset ==
    \/ StartAsset
    \/ VisitAsset
    \/ ViewCall
    \/ ViewReturn
    \/ RegisterWriter
    \/ ReleaseData

SpecAsset == InitAsset /\ [][NextAsset]_vars

----------------------------------------------------------------------------
(* Properties of the structural runs (SpecTree) *)

\* node n and its descendants have the shape of block b and its descendants
RECURSIVE Mirror(_, _)
Mirror(b, n) ==
    /\ n.tag = b.tag
    /\ Len(n.kids) = Len(b.kids)
    /\ \A i \in 1..Len(b.kids) : Mirror(b.kids[i], n.kids[i])

RECURSIVE Plain(_)
Plain(b) ==
    /\ b.kind \in {"Base", "Text", "Container"}
    /\ \A i \in 1..Len(b.kids) : Plain(b.kids[i])

\* the nodes of a sequence of nodes, at any depth
RECURSIVE NodesOf(_)
NodesOf(ns) == UNION { {ns[i]} \cup NodesOf(ns[i].kids) : i \in 1..Len(ns) }

\* C1: when the visit of a View whose tree is built from Leaf, Container and
\* Text blocks completes, the accumulator holds one node, the View's, and the
\* node tree has the shape of the block tree: one node per block, with the
\* block's tag, the children in the order of the child blocks.
C1_ShapeMirrored ==
    (pc = "done" /\ \A i \in 1..Len(root.kids) : Plain(root.kids[i]))
        => (Len(elements) = 1 /\ Mirror(root, elements[1]))

C1_Witness ==
    /\ pc = "done"
    /\ root = ViewB(<<GroupB(<<EmptyB, TextB>>)>>, FALSE)

\* C5: the visit of an Interactive block appends one node.  SELF: an
\* Interactive node whose target and name are the name just generated.  BELOW
\* and SIDE: a Group of two children, an Interactive node whose target is the
\* name just generated and a Group with columns "1" holding one Empty node of
\* that name; the outer columns are "1" for BELOW, "2" for SIDE.  Any other
\* mode: an Interactive node with the block's own attributes, no name generated.
C5_InteractiveShapes ==
    [][Visiting("Interactive") =>
        LET b == Cur
            n == elements'[Len(elements')]
            nm == gen_name(names')
        IN /\ Len(elements') = Len(elements) + 1
           /\ SubSeq(elements', 1, Len(elements)) = elements
           /\ IF b.target = "SELF"
              THEN /\ names' = names + 1
                   /\ n.tag = "Interactive"
                   /\ n.attrs.target = nm /\ n.attrs.name = nm
              ELSE IF b.target \in {"BELOW", "SIDE"}
              THEN /\ names' = names + 1
                   /\ n.tag = "Group" /\ Len(n.kids) = 2
                   /\ n.attrs = [columns |-> IF b.target = "BELOW" THEN "1" ELSE "2"]
                   /\ n.kids[1].tag = "Interactive" /\ n.kids[1].attrs.target = nm
                   /\ "name" \notin DOMAIN n.kids[1].attrs
                   /\ n.kids[2].tag = "Group" /\ n.kids[2].attrs = [columns |-> "1"]
                   /\ Len(n.kids[2].kids) = 1
                   /\ n.kids[2].kids[1].tag = "Empty"
                   /\ n.kids[2].kids[1].attrs = [name |-> nm]
              ELSE /\ names' = names
                   /\ n.tag = "Interactive"
                   /\ n.attrs = b.attrs]_vars

C5_Witness ==
    /\ pc = "done"
    /\ root = ViewB(<<InteractiveB("SELF"), InteractiveB("SIDE"), InteractiveB("BELOW")>>, FALSE)
    /\ names = 3

C7_ViewOnlyAtRoot ==
    /\ \A i \in 1..Len(stack) : stack[i].b.kind = "View" => (i = 2 /\ stack[i].entry = <<>>)
    /\ \A n \in NodesOf(elements) : \A j \in 1..Len(n.kids) : n.kids[j].tag # "View"

\* C8: the return of a Container visit leaves the accumulator as it was when
\* the visit was entered, followed by one node, the container's, which holds
\* the nodes of its children.
C8_ContainerFrame ==
    [][Returning("Container") =>
        /\ Len(elements') = Len(Top.entry) + 1
        /\ SubSeq(elements', 1, Len(Top.entry)) = Top.entry
        /\ elements'[Len(elements')].tag = Top.b.tag
        /\ elements'[Len(elements')].kids = elements]_vars

\* a container with a child has returned to a caller that held a node already
C8_Witness ==
    /\ pc = "visiting"
    /\ root.kids = <<EmptyB, GroupB(<<TextB>>)>>
    /\ Top.b = root
    /\ Top.i = 3
    /\ Len(elements) = 2

----------------------------------------------------------------------------
(* Properties of the asset runs (SpecAsset) *)

\* the memo of the last call was an entry of the class of the store
CallHadMemo == call.asset.prev # NoEntry /\ call.asset.prev.klass = call.store.fw_klass

\* C2: a block with inline data that has been visited with success, by stores
\* of one entry class, has had its payload written once, and every visit has
\* returned the same entry; the nodes of its occurrences in a finished
\* document carry the same src.
C2_WrittenOnce ==
    /\ \A a \in AssetIds :
          (assets[a].data # None /\ returned[a] # {} /\ Cardinality(klasses[a]) <= 1)
              => (writes[a] = 1 /\ Cardinality(returned[a]) = 1)
    /\ pc = "done" =>
          \A i, j \in 1..Len(root.kids) :
              root.kids[i].aid = root.kids[j].aid
                  => elements[1].kids[i].attrs.src = elements[1].kids[j].attrs.src

\* the second traversal holds the block twice; its entry was written in the first
C2_Witness ==
    /\ pc = "done"
    /\ visits = 2
    /\ root.kids = <<AssetB(2), AssetB(2)>>
    /\ uid = 2
    /\ writes[2] = 1
    /\ Len(store.files) = 2
    /\ store.files[1].uid = 1

\* C3 as stated: the visit of an Asset block with neither data nor file fails
\* with "No asset to add" and adds no node, whatever the memoized entry.
C3_MissingAlwaysFails ==
    (call.id # 0 /\ call.asset.data = None /\ call.asset.file = None)
        => /\ pc = "raised"
           /\ err = [exc |-> "DPClientError", msg |-> <<"No asset to add">>]
           /\ elements = call.els

\* C3 amended: the visit of an Asset block with neither data nor file, and
\* with no memoized entry of the class of the store, fails with "No asset to
\* add" and adds no node.
C3_MissingFailsWithoutMemo ==
    (call.id # 0 /\ call.asset.data = None /\ call.asset.file = None /\ ~CallHadMemo)
        => /\ pc = "raised"
           /\ err = [exc |-> "DPClientError", msg |-> <<"No asset to add">>]
           /\ elements = call.els

\* the block memoizes an entry of the other class
C3_Witness ==
    /\ call.id # 0
    /\ call.asset.data = None /\ call.asset.file = None
    /\ call.asset.prev # NoEntry
    /\ pc = "raised"

\* C4: the visit of a block with inline data and no reusable memo, for which
\* the registry has no writer or the writer no rule for the payload, ends in
\* the DPClientError naming the payload type and the visitor class.
C4_LookupMissIsClientError ==
    (/\ call.id # 0
     /\ call.asset.data # None
     /\ ~CallHadMemo
     /\ \/ call.asset.klass \notin DOMAIN call.out.mapping
        \/ call.asset.data \notin WriterRules(call.out.mapping[call.asset.klass]))
        => /\ pc = "raised"
           /\ err = [exc |-> "DPClientError",
                     msg |-> <<call.asset.data, "not supported for", "XMLBuilder">>]

\* C9: once get_writer has been called, the registry maps the four default
\* kinds to their writers.
C9_DefaultsAfterFirstUse ==
    gw_called => \A k \in DefaultKinds :
                    k \in DOMAIN asset_mapping /\ asset_mapping[k] = DefaultMapping[k]

\* C10: when _add_asset_to_store has ended in an error, the block memoizes
\* what it memoized before the call and the store holds the registrations it
\* held before the call.
C10_FailureKeepsDedupState ==
    (call.id # 0 /\ call.out.exc # "")
        => /\ pc = "raised"
           /\ assets[call.id].prev = call.asset.prev
           /\ store.files = call.store.files

\* a failure after a registration of this traversal, of a block with a memo
C10_Witness ==
    /\ call.id # 0
    /\ call.out.exc # ""
    /\ call.asset.prev # NoEntry
    /\ Len(store.files) >= 1

====
